---- MODULE Spec2Model ----
(***************************************************************************)
(* Container-terminal simulation of src/main.py.                           *)
(*                                                                         *)
(* The program is a set of simpy processes: one arrival generator          *)
(* (vessel_on_the_terminal), one Vessel.arrive process per vessel and one  *)
(* QuayCrane.load_container process per container.  The simpy kernel the   *)
(* program runs on is modelled by what it does with the program's calls:   *)
(*   - the event queue is a heap of (time, priority, eid, event); a step   *)
(*     pops its minimum, sets the clock to the event's time and runs the   *)
(*     event's callbacks (resuming the process that waits for it);         *)
(*   - env.process(g) schedules the process's Initialize event URGENT at   *)
(*     the present time; env.timeout(d) schedules a NORMAL event at        *)
(*     now + d; a process that ends schedules itself NORMAL at now;        *)
(*   - Resource.request() appends to the put queue and tries the head of   *)
(*     that queue; a granted request is scheduled NORMAL at now;           *)
(*   - Resource.release() removes the user at once and schedules the       *)
(*     Release event NORMAL at now; when that event is processed the head  *)
(*     of the put queue is tried;                                          *)
(*   - env.run(until=t) schedules a stop event URGENT at t and steps until *)
(*     it is processed; an exception that escapes a process aborts the run *)
(*     when the failed process event is processed.                         *)
(***************************************************************************)
EXTENDS Integers, Sequences, FiniteSets, TLC

\* ---------------------------------------------------------------- constants
\* The program's configuration (src/main.py lines 5-13).  The model runs every
\* configuration from the smallest one up to the program's own berth, crane
\* and vessel counts.
NUM_BERTHS == 2
NUM_QUAY_CRANES == 2
NUM_VESSEL == 4
CRANE_CONTAINER_TIME == 3

\* simpy's two event priorities.
URGENT == 0
NORMAL == 1

\* Bounds of the model: CONTAINERS_PER_VESSEL ranges over 1..MaxContainers,
\* SIMULATION_TIME over 1..MaxHorizon, and each value of
\* random.expovariate(...) over 0..MaxInterval.
MaxContainers == 3
MaxHorizon == 10
MaxInterval == 3

VARIABLES
    cfg,              \* the configuration of this run
    now,              \* env.now
    queue,            \* env._queue: the scheduled events
    eid,              \* env._eid: the next insertion number
    users,            \* terminal.berths.users: the granted requests, by vessel
    put_queue,        \* terminal.berths.queue: the waiting requests, by vessel
    quay_cranes,      \* terminal.quay_cranes: the pool of free cranes
    pc,               \* position of each Vessel.arrive process
    containers_left,  \* Vessel.containers_left
    crane,            \* the local variable crane of Vessel.arrive (0: none)
    step,             \* position of each vessel's load_container process
    gen_i,            \* the loop variable i of vessel_on_the_terminal
    genpc,            \* position of the arrival generator
    log,              \* the lines printed by Terminal.log
    runState          \* env.run: running, stopped (returned) or crashed

vars == <<cfg, now, queue, eid, users, put_queue, quay_cranes, pc,
          containers_left, crane, step, gen_i, genpc, log, runState>>

Vessels == 1..NUM_VESSEL

Configs ==
    [berths : 1..NUM_BERTHS, cranes : 0..NUM_QUAY_CRANES, vessels : 1..NUM_VESSEL,
     containers : 1..MaxContainers, until : 1..MaxHorizon]

Intervals == 0..MaxInterval

\* ---------------------------------------------------------------- the kernel
Event(t, p, n, k, w) == [time |-> t, prio |-> p, eid |-> n, kind |-> k, who |-> w]

Range(f) == {f[i] : i \in DOMAIN f}

\* An order that compares the priority with the wrong sign and before the time.
BeforeByPriority(e, f) ==
    \/ e.prio > f.prio
    \/ e.prio = f.prio /\ e.time < f.time
    \/ e.prio = f.prio /\ e.time = f.time /\ e.eid < f.eid

\* An order that leaves the priority out: first in, first out at equal times.
BeforeFifo(e, f) ==
    \/ e.time < f.time
    \/ e.time = f.time /\ e.eid < f.eid

\* The heap order of env._queue: (time, priority, eid).
Before(e, f) ==
    \/ e.time < f.time
    \/ e.time = f.time /\ e.prio < f.prio
    \/ e.time = f.time /\ e.prio = f.prio /\ e.eid < f.eid

\* heappop(env._queue)
NextEvent(q) == CHOOSE e \in q : \A f \in q \ {e} : Before(e, f)

\* Terminal.log
LogLine(t, m, v, c) == [time |-> t, msg |-> m, vessel |-> v, crane |-> c]

DoPutAlways(us) == TRUE

DoPutOffByOne(us) == Len(us) <= cfg.berths

\* Resource._do_put: a request is granted while a berth is free.
DoPut(us) == Len(us) < cfg.berths

PutLast(pq) == Len(pq)

\* Which waiting request BaseResource._trigger_put tries: the head of the queue.
PutIndex(pq) == 1

\* BaseResource._trigger_put: the head of the put queue is tried and, when it
\* is granted, becomes a user and leaves the queue; the loop stops after it.
TriggerPut(us, pq) ==
    IF pq # <<>> /\ DoPut(us)
    THEN LET i == PutIndex(pq)
         IN  [users |-> Append(us, pq[i]),
              put_queue |-> [j \in 1..(Len(pq) - 1) |-> IF j < i THEN pq[j] ELSE pq[j + 1]],
              granted |-> {pq[i]}]
    ELSE [users |-> us, put_queue |-> pq, granted |-> {}]

RemoveNone(us, v) == us

\* users.remove(request)
RemoveUser(us, v) ==
    LET I == {i \in 1..Len(us) : us[i] = v}
    IN  IF I = {} THEN us
        ELSE LET k == CHOOSE i \in I : \A j \in I : i <= j
             IN  [j \in 1..(Len(us) - 1) |-> IF j < k THEN us[j] ELSE us[j + 1]]

GrantEventsLost(t, n, granted) == {}

\* The Request events of the vessels granted by a _trigger_put, scheduled
\* NORMAL at time t with insertion numbers from n on.
GrantEvents(t, n, granted) == {Event(t, NORMAL, n, "Request", v) : v \in granted}

ReleaseNoWake(us, pq) == [users |-> us, put_queue |-> pq, granted |-> {}]

\* The callback of a Release event: BaseResource._trigger_put.
ReleaseCallback(us, pq) == TriggerPut(us, pq)

\* A stop event that comes after the other events of its time.
StopEventLast(until) == Event(until, NORMAL + 1, 1, "Until", 0)

\* env.run(until=SIMULATION_TIME): the stop event, scheduled URGENT at the
\* horizon right after the generator's Initialize event.
StopEvent(until) == Event(until, URGENT, 1, "Until", 0)

Init ==
    /\ cfg \in Configs
    /\ now = 0
    /\ queue = {Event(0, URGENT, 0, "InitGen", 0), StopEvent(cfg.until)}
    /\ eid = 2
    /\ users = <<>>
    /\ put_queue = <<>>
    /\ quay_cranes = [i \in 1..cfg.cranes |-> i]
    /\ pc = [v \in Vessels |-> "none"]
    /\ containers_left = [v \in Vessels |-> 0]
    /\ crane = [v \in Vessels |-> 0]
    /\ step = [v \in Vessels |-> "none"]
    /\ gen_i = 0
    /\ genpc = "created"
    /\ log = <<>>
    /\ runState = "running"

\* ---------------------------------------------------------------- the processes
\* An admission check that looks at the berths in use.
AdmitIfBerthFree == Len(users) < cfg.berths

AdmitAlways == TRUE

\* vessel_on_the_terminal, line 152: the admission check.
Admit == Len(put_queue) < cfg.berths

\* A loop that stays on its index until the vessel of that index is created.
RetryIndex(i) == IF Admit THEN i + 1 ELSE i

\* vessel_on_the_terminal, line 146: the loop index of the next pass of
\* "for i in range(1, NUM_VESSEL + 1)".
NextIndex(i) == i + 1

LoadTwo(c) == c - 2

\* QuayCrane.load_container, line 108: vessel.containers_left -= 1
LoadOne(c) == c - 1

PoolNotPopped(pool) == pool

\* Vessel.arrive, line 69: the pool that quay_cranes.pop(0) leaves.
PoolAfterPop(pool) == Tail(pool)

ReturnNothing(pool, k) == pool

\* Vessel.arrive, line 76: quay_cranes.append(crane)
ReturnCrane(pool, k) == Append(pool, k)

UnloadOnceMore(c) == c >= 0

\* Vessel.arrive, line 72: the test of the while loop.
MoreToUnload(c) == c > 0

\* Vessel.arrive, lines 72-82, from the test of the while loop on: either the
\* next load_container process is started and waited for, or the crane goes
\* back to the pool, the berth is released, the departure is logged and the
\* process ends.  k is the vessel's crane, pool the free cranes, lines the log.
Unload(v, t, rest, k, pool, lines) ==
    IF MoreToUnload(containers_left[v])
    THEN /\ queue' = rest \cup {Event(t, URGENT, eid, "InitCrane", v)}
         /\ eid' = eid + 1
         /\ pc' = [pc EXCEPT ![v] = "unloading"]
         /\ step' = [step EXCEPT ![v] = "created"]
         /\ crane' = [crane EXCEPT ![v] = k]
         /\ quay_cranes' = pool
         /\ users' = users
         /\ log' = lines
    ELSE /\ quay_cranes' = ReturnCrane(pool, k)
         /\ users' = RemoveUser(users, v)
         /\ queue' = rest \cup {Event(t, NORMAL, eid, "Release", v),
                                Event(t, NORMAL, eid + 1, "VesselEnd", v)}
         /\ eid' = eid + 2
         /\ log' = Append(lines, LogLine(t, "leaves", v, 0))
         /\ pc' = [pc EXCEPT ![v] = "done"]
         /\ step' = [step EXCEPT ![v] = "none"]
         /\ crane' = [crane EXCEPT ![v] = 0]

\* The generator starts: first pass of the for loop, up to its yield.
InitializeGenerator ==
    /\ runState = "running" /\ queue # {}
    /\ LET e == NextEvent(queue) IN
        /\ e.kind = "InitGen"
        /\ now' = e.time
        /\ \E d \in Intervals :
               queue' = (queue \ {e}) \cup {Event(e.time + d, NORMAL, eid, "ArrivalTimeout", 0)}
        /\ eid' = eid + 1
        /\ gen_i' = 1
        /\ genpc' = "timeout"
    /\ UNCHANGED <<cfg, users, put_queue, quay_cranes, pc, containers_left, crane,
                   step, log, runState>>

\* The generator resumes after its timeout: the admission check, Vessel(...)
\* (whose __init__ starts the arrive process), and the next pass of the loop
\* up to its yield, or the end of the generator.
ArrivalTimeout ==
    /\ runState = "running" /\ queue # {}
    /\ LET e == NextEvent(queue)
           rest == queue \ {e}
           spawned == IF Admit THEN {Event(e.time, URGENT, eid, "InitVessel", gen_i)} ELSE {}
           n == eid + Cardinality(spawned)
       IN
        /\ e.kind = "ArrivalTimeout"
        /\ now' = e.time
        /\ pc' = IF Admit THEN [pc EXCEPT ![gen_i] = "created"] ELSE pc
        /\ containers_left' = IF Admit
                              THEN [containers_left EXCEPT ![gen_i] = cfg.containers]
                              ELSE containers_left
        /\ eid' = n + 1
        /\ IF NextIndex(gen_i) <= cfg.vessels
           THEN /\ \E d \in Intervals :
                       queue' = rest \cup spawned
                                     \cup {Event(e.time + d, NORMAL, n, "ArrivalTimeout", 0)}
                /\ gen_i' = NextIndex(gen_i)
                /\ genpc' = genpc
           ELSE /\ queue' = rest \cup spawned \cup {Event(e.time, NORMAL, n, "GenEnd", 0)}
                /\ gen_i' = gen_i
                /\ genpc' = "done"
    /\ UNCHANGED <<cfg, users, put_queue, quay_cranes, crane, step, log, runState>>

\* Vessel.arrive, lines 58-63: the arrival is logged and the berth requested.
VesselArrive ==
    /\ runState = "running" /\ queue # {}
    /\ LET e == NextEvent(queue)
           v == e.who
           r == TriggerPut(users, Append(put_queue, v))
       IN
        /\ e.kind = "InitVessel"
        /\ now' = e.time
        /\ log' = Append(log, LogLine(e.time, "arrives", v, 0))
        /\ users' = r.users
        /\ put_queue' = r.put_queue
        /\ queue' = (queue \ {e}) \cup GrantEvents(e.time, eid, r.granted)
        /\ eid' = eid + Cardinality(r.granted)
        /\ pc' = [pc EXCEPT ![v] = "waitBerth"]
    /\ UNCHANGED <<cfg, quay_cranes, containers_left, crane, step, gen_i, genpc, runState>>

\* Vessel.arrive, lines 66-73: the granted request is processed, the vessel
\* logs its berthing and takes the first crane of the pool; pop(0) on an empty
\* pool raises IndexError, which ends the process as failed.
VesselBerth ==
    /\ runState = "running" /\ queue # {}
    /\ LET e == NextEvent(queue)
           v == e.who
           lines == Append(log, LogLine(e.time, "berths", v, 0))
       IN
        /\ e.kind = "Request"
        /\ now' = e.time
        /\ IF quay_cranes = <<>>
           THEN /\ pc' = [pc EXCEPT ![v] = "failed"]
                /\ queue' = (queue \ {e}) \cup {Event(e.time, NORMAL, eid, "VesselFailed", v)}
                /\ eid' = eid + 1
                /\ log' = lines
                /\ UNCHANGED <<users, quay_cranes, crane, step>>
           ELSE Unload(v, e.time, queue \ {e}, Head(quay_cranes), PoolAfterPop(quay_cranes), lines)
    /\ UNCHANGED <<cfg, put_queue, containers_left, gen_i, genpc, runState>>

\* QuayCrane.load_container, lines 102-105.
CraneStart ==
    /\ runState = "running" /\ queue # {}
    /\ LET e == NextEvent(queue)
           v == e.who
       IN
        /\ e.kind = "InitCrane"
        /\ now' = e.time
        /\ log' = Append(log, LogLine(e.time, "starts", v, crane[v]))
        /\ queue' = (queue \ {e})
                    \cup {Event(e.time + CRANE_CONTAINER_TIME, NORMAL, eid, "CraneTimeout", v)}
        /\ eid' = eid + 1
        /\ step' = [step EXCEPT ![v] = "timeout"]
    /\ UNCHANGED <<cfg, users, put_queue, quay_cranes, pc, containers_left, crane,
                   gen_i, genpc, runState>>

\* QuayCrane.load_container, lines 108-111, and the end of that process.
CraneFinish ==
    /\ runState = "running" /\ queue # {}
    /\ LET e == NextEvent(queue)
           v == e.who
       IN
        /\ e.kind = "CraneTimeout"
        /\ now' = e.time
        /\ containers_left' = [containers_left EXCEPT ![v] = LoadOne(@)]
        /\ log' = Append(log, LogLine(e.time, "loads", v, crane[v]))
        /\ queue' = (queue \ {e}) \cup {Event(e.time, NORMAL, eid, "CraneDone", v)}
        /\ eid' = eid + 1
        /\ step' = [step EXCEPT ![v] = "finished"]
    /\ UNCHANGED <<cfg, users, put_queue, quay_cranes, pc, crane, gen_i, genpc, runState>>

\* Vessel.arrive resumes at line 73 when its load_container process has ended.
VesselResume ==
    /\ runState = "running" /\ queue # {}
    /\ LET e == NextEvent(queue)
           v == e.who
       IN
        /\ e.kind = "CraneDone"
        /\ now' = e.time
        /\ Unload(v, e.time, queue \ {e}, crane[v], quay_cranes, log)
    /\ UNCHANGED <<cfg, put_queue, containers_left, gen_i, genpc, runState>>

\* The Release event of line 79 is processed: its callback tries the put queue.
ReleaseProcessed ==
    /\ runState = "running" /\ queue # {}
    /\ LET e == NextEvent(queue)
           r == ReleaseCallback(users, put_queue)
       IN
        /\ e.kind = "Release"
        /\ now' = e.time
        /\ users' = r.users
        /\ put_queue' = r.put_queue
        /\ queue' = (queue \ {e}) \cup GrantEvents(e.time, eid, r.granted)
        /\ eid' = eid + Cardinality(r.granted)
    /\ UNCHANGED <<cfg, quay_cranes, pc, containers_left, crane, step, gen_i, genpc,
                   log, runState>>

\* The event of a process that has ended (a vessel, the generator): nothing
\* waits for it.
ProcessEnd ==
    /\ runState = "running" /\ queue # {}
    /\ LET e == NextEvent(queue) IN
        /\ e.kind \in {"VesselEnd", "GenEnd"}
        /\ now' = e.time
        /\ queue' = queue \ {e}
    /\ UNCHANGED <<cfg, eid, users, put_queue, quay_cranes, pc, containers_left, crane,
                   step, gen_i, genpc, log, runState>>

\* A failed process event that is dropped without raising.
ProcessFailedDefused ==
    /\ runState = "running" /\ queue # {}
    /\ LET e == NextEvent(queue) IN
        /\ e.kind = "VesselFailed"
        /\ now' = e.time
        /\ queue' = queue \ {e}
    /\ UNCHANGED <<cfg, eid, users, put_queue, quay_cranes, pc, containers_left, crane,
                   step, gen_i, genpc, log, runState>>

\* The event of a vessel process that ended with IndexError: nothing has
\* defused it, so env.step raises and env.run is left by the exception.
ProcessFailed ==
    /\ runState = "running" /\ queue # {}
    /\ LET e == NextEvent(queue) IN
        /\ e.kind = "VesselFailed"
        /\ now' = e.time
        /\ queue' = queue \ {e}
        /\ runState' = "crashed"
    /\ UNCHANGED <<cfg, eid, users, put_queue, quay_cranes, pc, containers_left, crane,
                   step, gen_i, genpc, log>>

\* env.run(until=SIMULATION_TIME), line 168: the stop event is processed.
StopSimulation ==
    /\ runState = "running" /\ queue # {}
    /\ LET e == NextEvent(queue) IN
        /\ e.kind = "Until"
        /\ now' = e.time
        /\ queue' = queue \ {e}
        /\ runState' = "stopped"
    /\ UNCHANGED <<cfg, eid, users, put_queue, quay_cranes, pc, containers_left, crane,
                   step, gen_i, genpc, log>>

Next ==
    \/ InitializeGenerator
    \/ ArrivalTimeout
    \/ VesselArrive
    \/ VesselBerth
    \/ CraneStart
    \/ CraneFinish
    \/ VesselResume
    \/ ReleaseProcessed
    \/ ProcessEnd
    \/ ProcessFailed
    \/ StopSimulation

Spec == Init /\ [][Next]_vars

\* The runs with the longest horizon of the model, in which env.run keeps
\* calling env.step until the run is stopped or aborted.
LongInit == Init /\ cfg.until = MaxHorizon

FairSpec == LongInit /\ [][Next]_vars /\ WF_vars(Next)

\* ---------------------------------------------------------------- the log
\* The positions of vessel v's lines with message m in the log.
Lines(m, v) == {i \in 1..Len(log) : log[i].msg = m /\ log[i].vessel = v}

\* The position of a line that is printed at most once per vessel (0: not yet).
LineOf(m, v) == IF Lines(m, v) = {} THEN 0 ELSE CHOOSE i \in Lines(m, v) : TRUE

\* The lines of vessel v, in the order of the log.
VesselLog(v) == SelectSeq(log, LAMBDA l : l.vessel = v)

Berthed(v) == pc[v] \in {"unloading", "failed"}

\* ---------------------------------------------------------------- C1
\* C1: in every reachable state the number of vessels holding a berth (the
\* number of users of the berth resource) is between 0 and the number of
\* berths, and so is the number of vessel processes between their berthing and
\* their release.
C1_BerthCapacity ==
    /\ Len(users) >= 0
    /\ Len(users) <= cfg.berths
    /\ Cardinality({v \in Vessels : Berthed(v)}) <= cfg.berths

\* Both berths are held while two more vessels wait for one.
C1_Witness ==
    /\ cfg.berths = 2
    /\ Len(users) = 2
    /\ Len(put_queue) = 2

\* ---------------------------------------------------------------- C2
\* C2: the berth is granted in the order of the requests: the wait queue holds
\* the waiting vessels in the order of their requests, and whenever vessel a
\* issued its request (logged its arrival) before vessel b and b has logged
\* "berths", a has logged "berths" before b.
C2_FifoBerth ==
    /\ \A i, j \in 1..Len(put_queue) :
           i < j => LineOf("arrives", put_queue[i]) < LineOf("arrives", put_queue[j])
    /\ \A a, b \in Vessels :
           (/\ LineOf("arrives", a) # 0
            /\ LineOf("arrives", a) < LineOf("arrives", b)
            /\ LineOf("berths", b) # 0)
           => /\ LineOf("berths", a) # 0
              /\ LineOf("berths", a) < LineOf("berths", b)

\* Two vessels waited in the queue at the same time and both have berthed.
C2_Witness ==
    \E a, b \in Vessels :
        /\ LineOf("arrives", a) < LineOf("arrives", b)
        /\ LineOf("arrives", b) < LineOf("berths", a)
        /\ LineOf("berths", a) # 0 /\ LineOf("berths", b) # 0
        /\ log[LineOf("berths", a)].time > log[LineOf("arrives", a)].time
        /\ log[LineOf("berths", b)].time > log[LineOf("arrives", b)].time

\* ---------------------------------------------------------------- C3
\* C3: containers_left of a vessel is never negative and is 0 once the vessel
\* has released its berth; after the vessel's creation it changes only in a
\* step that completes a crane step (prints the crane's "loads" line), every
\* such step decreases it by exactly 1, and it is 0 in the step that releases
\* the berth.
C3_ContainersLeft ==
    /\ [](\A v \in Vessels :
             /\ containers_left[v] >= 0
             /\ (pc[v] = "done" => containers_left[v] = 0))
    /\ [][\A v \in Vessels :
             LET loaded == log' = Append(log, LogLine(now', "loads", v, crane[v]))
             IN  /\ (pc[v] # "none" /\ containers_left'[v] # containers_left[v]) => loaded
                 /\ loaded => containers_left'[v] = containers_left[v] - 1
                 /\ (v \in Range(users) /\ v \notin Range(users')) => containers_left'[v] = 0
         ]_vars

\* A vessel of three containers has unloaded them all and released its berth.
C3_Witness ==
    \E v \in Vessels :
        /\ cfg.containers = 3
        /\ pc[v] = "done"
        /\ containers_left[v] = 0
        /\ Cardinality(Lines("loads", v)) = 3

\* ---------------------------------------------------------------- C4
\* The message of the j-th line of a vessel of c containers.
ExpectedMsg(j, c) ==
    IF j = 1 THEN "arrives"
    ELSE IF j = 2 THEN "berths"
    ELSE IF j = 2 * c + 3 THEN "leaves"
    ELSE IF j % 2 = 1 THEN "starts" ELSE "loads"

\* The time of the j-th line (j >= 2) of a vessel of c containers berthed at b.
ExpectedTime(j, b, c) ==
    IF j = 2 THEN b
    ELSE IF j = 2 * c + 3 THEN b + c * CRANE_CONTAINER_TIME
    ELSE IF j % 2 = 1 THEN b + (((j - 1) \div 2) - 1) * CRANE_CONTAINER_TIME
    ELSE b + ((j - 2) \div 2) * CRANE_CONTAINER_TIME

\* The log of the scenario: 1 berth, 1 crane, 1 vessel of 3 containers that
\* arrives at 0.
Scenario ==
    << LogLine(0, "arrives", 1, 0), LogLine(0, "berths", 1, 0),
       LogLine(0, "starts", 1, 1), LogLine(3, "loads", 1, 1),
       LogLine(3, "starts", 1, 1), LogLine(6, "loads", 1, 1),
       LogLine(6, "starts", 1, 1), LogLine(9, "loads", 1, 1),
       LogLine(9, "leaves", 1, 0) >>

InScenario ==
    /\ cfg.berths = 1 /\ cfg.cranes = 1 /\ cfg.vessels = 1 /\ cfg.containers = 3
    /\ log # <<>>
    /\ log[1].time = 0

\* C4: the lines of every vessel are, in this order, its arrival, its
\* berthing, CONTAINERS_PER_VESSEL pairs crane-start / crane-finish and its
\* departure; the k-th start is at berth time + (k-1)*CRANE_CONTAINER_TIME,
\* the k-th finish at berth time + k*CRANE_CONTAINER_TIME and the departure at
\* berth time + CONTAINERS_PER_VESSEL*CRANE_CONTAINER_TIME.  In the scenario
\* the log is a prefix of arrive@0 berth@0 start@0 finish@3 start@3 finish@6
\* start@6 finish@9 depart@9, and all of it when the run ends after time 9.
C4_VesselLog ==
    /\ \A v \in Vessels :
           LET L == VesselLog(v)
               c == cfg.containers
           IN  /\ Len(L) <= 2 * c + 3
               /\ \A j \in 1..Len(L) :
                      /\ L[j].msg = ExpectedMsg(j, c)
                      /\ j >= 2 => L[j].time = ExpectedTime(j, L[2].time, c)
    /\ InScenario =>
           /\ Len(log) <= Len(Scenario)
           /\ log = SubSeq(Scenario, 1, Len(log))
           /\ (runState = "stopped" /\ cfg.until > 9) => log = Scenario

\* The scenario has run to the vessel's departure.
C4_Witness == InScenario /\ log = Scenario

\* ---------------------------------------------------------------- C5
\* C5: with 1 berth, a vessel b that logs "berths" after a vessel a does so
\* only after a's "leaves the terminal" line, and a's Release event is not
\* pending any more once b has berthed.
C5_OneBerth ==
    cfg.berths = 1 =>
        \A a, b \in Vessels :
            (LineOf("berths", a) # 0 /\ LineOf("berths", a) < LineOf("berths", b))
            => /\ LineOf("leaves", a) # 0
               /\ LineOf("leaves", a) < LineOf("berths", b)
               /\ \A e \in queue : ~(e.kind = "Release" /\ e.who = a)

\* With 1 berth, b has berthed after a, and b arrived at the very time of a's
\* release while a still held the berth.
C5_Witness ==
    \E a, b \in Vessels :
        /\ cfg.berths = 1
        /\ LineOf("berths", a) # 0 /\ LineOf("berths", a) < LineOf("berths", b)
        /\ LineOf("leaves", a) # 0
        /\ LineOf("arrives", b) < LineOf("leaves", a)
        /\ log[LineOf("arrives", b)].time = log[LineOf("leaves", a)].time

\* ---------------------------------------------------------------- C6
\* C6: the clock never decreases in a step and never passes the horizon, so
\* that it is at most the horizon when run returns; the timestamps of the log
\* never decrease from one line to the next.
C6_Clock ==
    /\ [](/\ now <= cfg.until
          /\ \A i, j \in 1..Len(log) : i < j => log[i].time <= log[j].time)
    /\ [][now' >= now]_vars

\* The run has returned after the clock has advanced several times and lines
\* of different times have been logged.
C6_Witness ==
    /\ runState = "stopped"
    /\ now = cfg.until
    /\ Cardinality({log[i].time : i \in 1..Len(log)}) >= 3

\* ---------------------------------------------------------------- C7
\* C7 as claimed: when run returns, every event whose time is at most the
\* horizon has been processed.
C7_Original ==
    runState = "stopped" => \A e \in queue : e.time > cfg.until

\* C7, amended: the run stops when the stop event scheduled at the horizon is
\* processed, which is before every other event of that time: when run returns
\* the clock is the horizon and every event of an earlier time has been
\* processed, no event of the horizon's time other than the stop event is ever
\* processed, and once run has returned nothing changes any more: the waiting
\* processes stay as they are, with no release and no further log line.
C7_Horizon ==
    /\ [](runState = "stopped" =>
             /\ now = cfg.until
             /\ \A e \in queue : e.time >= cfg.until)
    /\ [][/\ (now' = cfg.until /\ now' # now) => runState' = "stopped"
          /\ runState = "stopped" => UNCHANGED <<log, users, put_queue, pc, queue>>
         ]_vars

\* The run has returned while a crane step that ends at the horizon and a
\* vessel waiting for a berth are left as they are.
C7_Witness ==
    /\ runState = "stopped"
    /\ \E e \in queue : e.kind = "CraneTimeout" /\ e.time = cfg.until
    /\ \E v \in Vessels : pc[v] = "waitBerth"

\* ---------------------------------------------------------------- C8
\* In this step event e is processed while event f of the same time stays
\* in the queue.
Overtakes(e, f) ==
    /\ e \in queue /\ f \in queue
    /\ e \notin queue' /\ f \in queue'
    /\ e.time = f.time

\* C8 as claimed: events of equal time are processed in the order in which
\* they were scheduled, whatever their kind.
C8_Original ==
    [][\A e, f \in queue : Overtakes(e, f) => e.eid < f.eid]_vars

\* The events simpy schedules as urgent: the start of a process (and the stop
\* event of run).
StartKinds == {"InitGen", "InitVessel", "InitCrane", "Until"}

\* C8, amended: at equal times a process start (of a Vessel or of a crane
\* step) is processed before every timeout, berth grant, release and process
\* completion, also before those scheduled earlier; two process starts, and
\* two events that are not process starts, are processed in the order in which
\* they were scheduled.
C8_PriorityThenFifo ==
    [][\A e, f \in queue :
          Overtakes(e, f) =>
              IF e.kind \in StartKinds
              THEN f.kind \in StartKinds => e.eid < f.eid
              ELSE f.kind \notin StartKinds /\ e.eid < f.eid
      ]_vars

\* A start of a process is about to run although an event of the same time
\* was scheduled before it.
C8_Witness ==
    /\ runState = "running"
    /\ queue # {}
    /\ NextEvent(queue).kind \in {"InitVessel", "InitCrane"}
    /\ \E f \in queue :
           /\ f.time = NextEvent(queue).time
           /\ f.eid < NextEvent(queue).eid
           /\ f.kind \in {"Request", "CraneTimeout", "CraneDone", "ArrivalTimeout"}

\* ---------------------------------------------------------------- C9
\* The lifecycle state a vessel process is in: 0 not arrived yet, 2 waiting
\* for a berth, 3 berthed and unloading, 5 gone.  Arrived (1) and Departing (4)
\* are passed within the step that logs the arrival, or the departure.
Lifecycle(v) ==
    IF pc[v] \in {"none", "created"} THEN 0
    ELSE IF pc[v] = "waitBerth" THEN 2
    ELSE IF pc[v] = "done" THEN 5
    ELSE 3

\* The events scheduled for vessel v.
EventsOf(v) == {e \in queue : e.who = v}

\* C9: a vessel moves from a lifecycle state to itself or to the next one
\* only, logging its arrival when it starts to wait for a berth, its berthing
\* when it becomes berthed and its departure when it becomes gone; a vessel
\* that is gone holds no berth and no crane, stays gone, gets no further log
\* line and no further event.
C9_Lifecycle ==
    /\ [](\A v \in Vessels :
             pc[v] = "done" =>
                 /\ v \notin Range(users) /\ v \notin Range(put_queue)
                 /\ crane[v] = 0
                 /\ LineOf("leaves", v) # 0)
    /\ [][\A v \in Vessels :
             /\ <<Lifecycle(v), Lifecycle(v)'>> \in
                    {<<0, 0>>, <<0, 2>>, <<2, 2>>, <<2, 3>>, <<3, 3>>, <<3, 5>>, <<5, 5>>}
             /\ <<Lifecycle(v), Lifecycle(v)'>> = <<0, 2>> =>
                    log' = Append(log, LogLine(now', "arrives", v, 0))
             /\ <<Lifecycle(v), Lifecycle(v)'>> = <<2, 3>> =>
                    Lines("berths", v) = {} /\ Lines("berths", v)' = {Len(log) + 1}
             /\ <<Lifecycle(v), Lifecycle(v)'>> = <<3, 5>> =>
                    log' = Append(log, LogLine(now', "leaves", v, 0))
             /\ Lifecycle(v) = 5 =>
                    /\ VesselLog(v)' = VesselLog(v)
                    /\ EventsOf(v)' \subseteq EventsOf(v)
         ]_vars

\* A vessel that had to wait for its berth is gone while the run goes on with
\* other vessels.
C9_Witness ==
    \E v, w \in Vessels :
        /\ pc[v] = "done"
        /\ log[LineOf("berths", v)].time > log[LineOf("arrives", v)].time
        /\ pc[w] = "unloading"
        /\ runState = "running"

\* ---------------------------------------------------------------- C10
\* The run was cut off by the horizon: it has returned with events left.
CutOff == runState = "stopped" /\ queue # {}

\* The run was aborted by an exception.
Aborted == runState = "crashed"

\* C10: as long as the scheduler keeps processing events, every vessel that
\* waits for a berth is eventually granted one, and every berthed vessel
\* eventually departs, unless the horizon cuts the run off or an exception
\* aborts it.
C10_NoStarvation ==
    \A v \in Vessels :
        /\ (pc[v] = "waitBerth") ~> (Berthed(v) \/ pc[v] = "done" \/ CutOff \/ Aborted)
        /\ Berthed(v) ~> (pc[v] = "done" \/ CutOff \/ Aborted)

\* A vessel that waited in the queue behind another one has departed and the
\* run has processed all its events before the horizon.
C10_Witness ==
    \E v \in Vessels :
        /\ pc[v] = "done"
        /\ log[LineOf("berths", v)].time > log[LineOf("arrives", v)].time
        /\ runState = "stopped"
        /\ queue = {}

\* ---------------------------------------------------------------- C11
\* The vessels that hold crane k.
HoldersOf(k) == {v \in Vessels : crane[v] = k}

\* The places of crane k in the pool.
PlacesOf(k) == {i \in 1..Len(quay_cranes) : quay_cranes[i] = k}

\* The load_container processes of crane k that have started and not ended.
StepsOf(k) == {e \in queue : e.kind \in {"InitCrane", "CraneTimeout"} /\ crane[e.who] = k}

\* C11: every crane is either once in the pool or held by exactly one vessel,
\* which is berthed and unloading; the cranes in the pool and the vessels that
\* hold a crane add up to NUM_QUAY_CRANES; every unloading vessel holds a
\* crane, and a crane runs at most one load_container step at a time, for the
\* vessel that holds it.
C11_CraneExclusive ==
    /\ \A k \in 1..cfg.cranes :
           /\ Cardinality(PlacesOf(k)) + Cardinality(HoldersOf(k)) = 1
           /\ Cardinality(StepsOf(k)) <= 1
           /\ \A v \in HoldersOf(k) : pc[v] = "unloading" /\ v \in Range(users)
    /\ Len(quay_cranes) + Cardinality({v \in Vessels : crane[v] # 0}) = cfg.cranes
    /\ \A v \in Vessels :
           /\ crane[v] \in 0..cfg.cranes
           /\ pc[v] = "unloading" => crane[v] # 0
           /\ step[v] # "none" => crane[v] # 0

\* Two vessels unload at the same time, each with its own crane.
C11_Witness ==
    \E v, w \in Vessels :
        /\ v # w
        /\ crane[v] # 0 /\ crane[w] # 0 /\ crane[v] # crane[w]
        /\ step[v] = "timeout" /\ step[w] = "timeout"
        /\ quay_cranes = <<>>

\* ---------------------------------------------------------------- C12
\* C12 as claimed: an empty crane pool stalls the vessel and the run goes on
\* without an error.
C12_Original == runState # "crashed"

\* C12, amended: a vessel that is granted a berth while the crane pool is
\* empty (always, when there are no cranes) logs its berthing and fails with
\* the IndexError of pop(0), and only then: it keeps its berth, gets no crane
\* and no crane step, and the event of its failed process is scheduled at the
\* present time; the clock does not advance any more, the run is aborted by
\* the exception when that event is processed, and it never returns normally.
C12_PoolEmptyAborts ==
    /\ [](/\ \A v \in Vessels :
                pc[v] = "failed" =>
                    /\ v \in Range(users)
                    /\ crane[v] = 0
                    /\ Lines("starts", v) = {}
                    /\ LineOf("berths", v) # 0
                    /\ log[LineOf("berths", v)].time = now
                    /\ runState # "stopped"
                    /\ runState = "running" =>
                           \E e \in queue :
                               e.kind = "VesselFailed" /\ e.who = v /\ e.time = now
          /\ runState = "crashed" => \E v \in Vessels : pc[v] = "failed")
    /\ [][/\ \A v \in Vessels :
                (pc[v] = "waitBerth" /\ pc'[v] # "waitBerth")
                => (pc'[v] = "failed" <=> quay_cranes = <<>>)
          /\ runState = "crashed" => UNCHANGED <<queue, log, pc, users>>
         ]_vars

\* There are no cranes and the run has been aborted.
C12_Witness ==
    /\ cfg.cranes = 0
    /\ runState = "crashed"
    /\ \E v \in Vessels : pc[v] = "failed"

\* ---------------------------------------------------------------- C13
\* The generator's timeout is the event that this step processes.
AtArrivalTimeout ==
    /\ runState = "running"
    /\ queue # {}
    /\ NextEvent(queue).kind = "ArrivalTimeout"

\* Vessel v is created in this step.
Spawned(v) ==
    /\ pc[v] = "none"
    /\ pc'[v] = "created"
    /\ \E e \in queue' \ queue : e.kind = "InitVessel" /\ e.who = v /\ e.time = now'

C15_Original ==
    /\ \A v \in Vessels : pc[v] = "created" => Len(users) < cfg.berths
    /\ put_queue = <<>>

\* ---------------------------------------------------------------- C16
\* The vessels that have logged "berths" and not released their berth.
PastBerthWait == {v \in Vessels : Berthed(v)}

\* The vessels whose request is granted but whose process has not resumed:
\* the event of the granted request is scheduled at the present time.
GrantPending ==
    {v \in Vessels :
        /\ pc[v] = "waitBerth"
        /\ \E e \in queue : e.kind = "Request" /\ e.who = v /\ e.time = now}

\* C16 as claimed: in every state the granted requests are those of the
\* vessels that have resumed past their berth wait and not released yet.
C16_Original == Range(users) = PastBerthWait

\* C16, amended: in every state each vessel that has resumed past its berth
\* wait and not released yet is among the granted requests, once; every other
\* granted request is that of a vessel that has not resumed yet, is not in
\* the wait queue any more and whose grant event is scheduled at the present
\* time; no vessel past its release is counted.
C16_GrantedSet ==
    /\ Range(users) = PastBerthWait \cup GrantPending
    /\ Cardinality(Range(users)) = Len(users)
    /\ \A v \in GrantPending : v \notin Range(put_queue) /\ LineOf("berths", v) = 0
    /\ \A v \in PastBerthWait : LineOf("berths", v) # 0 /\ LineOf("leaves", v) = 0
    /\ \A v \in Vessels : pc[v] = "done" => v \notin Range(users)
    /\ \A v \in Range(put_queue) :
           /\ pc[v] = "waitBerth"
           /\ \A e \in queue : ~(e.kind = "Request" /\ e.who = v)

\* A vessel that waited in the queue has been granted the berth another
\* vessel released and has not resumed yet, while a third vessel is berthed.
C16_Witness ==
    \E v, w \in Vessels :
        /\ v \in GrantPending
        /\ w \in PastBerthWait
        /\ \E a \in Vessels : pc[a] = "done" /\ LineOf("arrives", v) < LineOf("leaves", a)

\* ---------------------------------------------------------------- C17
\* The Release events that are scheduled and not processed yet.
PendingReleases == {e \in queue : e.kind = "Release"}

\* C17 as claimed: the head of the queue is granted in the step of the
\* release, so that in every state a non-empty wait queue implies that every
\* berth is in use.
C17_Original == put_queue # <<>> => Len(users) = cfg.berths

\* C17, amended: a release frees the berth at once and the head of the queue
\* is granted in a later step of the same simulated time, at the latest when
\* the Release event is processed: in every state a non-empty wait queue
\* implies that every berth is in use or that the Release event of a freed
\* berth is pending at the present time, and a vessel that had to wait logs
\* "berths" after, and with the timestamp of, the departure of a vessel that
\* released a berth.
C17_ZeroDelay ==
    /\ \A e \in PendingReleases : e.time = now /\ pc[e.who] = "done"
    /\ put_queue # <<>> =>
           \/ Len(users) = cfg.berths
           \/ /\ Len(users) + Cardinality(PendingReleases) >= cfg.berths
              /\ runState # "stopped"
    /\ \A v \in Vessels :
           (/\ LineOf("berths", v) # 0
            /\ log[LineOf("berths", v)].time > log[LineOf("arrives", v)].time)
           => \E a \in Vessels :
                  /\ LineOf("leaves", a) # 0
                  /\ LineOf("leaves", a) < LineOf("berths", v)
                  /\ log[LineOf("leaves", a)].time = log[LineOf("berths", v)].time

\* A berth has been released while a vessel waits: the berth is free, the
\* vessel is still in the queue and the Release event is pending.
C17_Witness ==
    /\ put_queue # <<>>
    /\ Len(users) < cfg.berths
    /\ PendingReleases # {}

\* ---------------------------------------------------------------- C18
\* A granted vessel is about to resume and take a crane.
AboutToBerth ==
    /\ runState = "running"
    /\ queue # {}
    /\ NextEvent(queue).kind = "Request"

\* C18: with at least as many cranes as berths, no more cranes are out of the
\* pool than berths are in use, the pool is not empty when a granted vessel is
\* about to take a crane, and no vessel ever fails on pop(0).
C18_PoolNeverEmpty ==
    cfg.cranes >= cfg.berths =>
        /\ cfg.cranes - Len(quay_cranes) <= Len(users)
        /\ AboutToBerth => quay_cranes # <<>>
        /\ \A v \in Vessels : pc[v] # "failed"
        /\ runState # "crashed"

\* As many cranes as berths: both berths are granted, one crane is out, and a
\* vessel is about to take the last crane, which a departed vessel returned.
C18_Witness ==
    /\ cfg.cranes = cfg.berths
    /\ cfg.berths = 2
    /\ AboutToBerth
    /\ Len(users) = 2
    /\ \E a \in Vessels :
           /\ pc[a] = "done"
           /\ quay_cranes = <<log[LineOf("leaves", a) - 1].crane>>

\* ---------------------------------------------------------------- C19
\* The vessels in the terminal: created and not departed.
Present == {v \in Vessels : pc[v] \in {"created", "waitBerth", "unloading", "failed"}}

\* C19: the berth queue never holds more than NUM_BERTHS vessels and at most
\* 2*NUM_BERTHS vessels are in the terminal (berthed or queued); a created
\* vessel issues its request before the generator's next check, so that at
\* most one vessel is created and has not requested yet, and none at the
\* check.
C19_QueueBound ==
    /\ Len(put_queue) <= cfg.berths
    /\ Len(users) + Len(put_queue) <= 2 * cfg.berths
    /\ Cardinality(Present) <= 2 * cfg.berths
    /\ Cardinality({v \in Vessels : pc[v] = "created"}) <= 1
    /\ AtArrivalTimeout => \A v \in Vessels : pc[v] # "created"

\* One berth: it is in use, one vessel waits, and a later arrival was skipped
\* because of the waiting vessel.
C19_Witness ==
    /\ cfg.berths = 1
    /\ Len(users) = 1
    /\ Len(put_queue) = 1
    /\ \E w \in Vessels : w < gen_i /\ pc[w] = "none"

\* ---------------------------------------------------------------- C20
\* The generator's timeouts that are pending.
PendingAttempts == {e \in queue : e.kind = "ArrivalTimeout"}

\* The arrival attempts made so far: one per timeout processed.
Attempts == IF genpc = "done" THEN cfg.vessels
            ELSE IF genpc = "timeout" THEN gen_i - 1 ELSE 0

\* The attempt of index v was made and skipped.
Skipped(v) == v <= Attempts /\ pc[v] = "none"

\* The places of the log where vessel v arrives.
ArrivalsOf(v) == {n \in 1..Len(log) : log[n].msg = "arrives" /\ log[n].vessel = v}

C20_Counts ==
    /\ Attempts <= cfg.vessels
    /\ Cardinality({v \in Vessels : pc[v] # "none"}) <= Attempts
    /\ \A v \in Vessels :
          /\ v > Attempts => pc[v] = "none"
          /\ Cardinality(ArrivalsOf(v)) <= 1
    /\ Cardinality(PendingAttempts) <= 1
    /\ genpc = "timeout" =>
          /\ gen_i \in 1..cfg.vessels
          /\ runState = "running" => Cardinality(PendingAttempts) = 1
    /\ genpc = "done" => PendingAttempts = {}

C20_Steps ==
    [][/\ AtArrivalTimeout => Attempts' = Attempts + 1
       /\ ~AtArrivalTimeout => Attempts' = Attempts
       /\ (AtArrivalTimeout /\ Attempts + 1 = cfg.vessels) => genpc' = "done"
       /\ \A v \in Vessels : Skipped(v) => Skipped(v)'
      ]_vars

\* C20: the generator makes one arrival attempt per timeout, NUM_VESSEL in
\* all when it finishes; at most as many vessels are created as attempts were
\* made, each index arrives at most once, no index above NUM_VESSEL is used,
\* and a skipped index is never created later.
C20_Generator == []C20_Counts /\ C20_Steps

\* The generator has finished after NUM_VESSEL attempts, one of which was
\* skipped while a later one created its vessel.
C20_Witness ==
    /\ genpc = "done"
    /\ cfg.vessels = NUM_VESSEL
    /\ \E v, w \in Vessels : v < w /\ Skipped(v) /\ pc[w] # "none"

====
